---- MODULE Spec2Model ----
(***************************************************************************)
(* Verification model of the frequency-domain routines of python_models:   *)
(*   classical_controller.py  tf_series, tf_feedback (numpy polymul/polyadd)*)
(*                            and bode_mag_phase                            *)
(*   multi_sas_attenuation.py isolator models and their cascade helpers     *)
(*   modern_contoller.py      state-space frequency-response loops and      *)
(*                            static output feedback                        *)
(*   multi_sas_animation1.py  the stage counter of animate                  *)
(* Arithmetic is exact (integers and complex rationals); floating-point     *)
(* rounding is outside the model.                                           *)
(***************************************************************************)
EXTENDS Integers, Sequences, FiniteSets, TLC

VARIABLES
    pc,        \* position of the routine under analysis
    op,        \* name of the routine that was called
    num1, den1, num2, den2,   \* arguments of tf_series
    num_ol, den_ol,           \* arguments of tf_feedback
    ret,                      \* returned pair (numerator, denominator)
    w,                        \* frequency grid passed to the evaluators
    f0_list,                  \* resonances of the cascade stages
    par,                      \* shared secondary parameters of the stages
    H,                        \* accumulator of the cascade helpers
    stage,                    \* number of stages multiplied into H so far
    A, B, C, D,               \* state-space matrices (sequences of rows)
    H11, H21,                 \* output lists of the frequency-response loop
    it,                       \* number of grid points the loop has completed
    err,                      \* exception that ended the routine, or "none"
    n_inv,                    \* calls of la.inv made so far
    K, Cfb,                   \* feedback gain and measurement matrix
    Acl, Bcl, Ccl, Dcl,       \* closed-loop matrices
    bode_num, bode_den,       \* arguments num, den of bode_mag_phase
    h, angle_h,               \* response of bode_mag_phase and its raw angle
    mag_db, ph_deg,           \* returned magnitude and phase
    stages_to_draw,           \* number of stages the animation draws
    frame,                    \* argument of the last animate call
    next_frame,               \* next frame of the animation's frame sequence
    n_pass,                   \* completed passes over the frame sequence
    heap,                     \* array objects: identity |-> contents
    refs,                     \* names bound to array objects
    n_calls                   \* calls made so far in a session

tfVars == <<num1, den1, num2, den2, num_ol, den_ol, ret>>
cascVars == <<w, f0_list, par, H, stage>>
ssVars == <<A, B, C, D, H11, H21, it, err, n_inv>>
fbVars == <<K, Cfb, Acl, Bcl, Ccl, Dcl>>
bodeVars == <<bode_num, bode_den, h, angle_h, mag_db, ph_deg>>
animVars == <<stages_to_draw, frame, next_frame, n_pass>>
memVars == <<heap, refs, n_calls>>
extVars == <<fbVars, bodeVars, animVars, memVars>>
vars == <<pc, op, tfVars, cascVars, ssVars, extVars>>

\* values of the variables a routine does not use
FbInert ==
    /\ K = <<>> /\ Cfb = <<>>
    /\ Acl = <<>> /\ Bcl = <<>> /\ Ccl = <<>> /\ Dcl = <<>>

BodeInert ==
    /\ bode_num = <<>> /\ bode_den = <<>>
    /\ h = <<>> /\ angle_h = <<>> /\ mag_db = <<>> /\ ph_deg = <<>>

AnimInert == stages_to_draw = 0 /\ frame = 0 /\ next_frame = 0 /\ n_pass = 0

MemInert == heap = <<>> /\ refs = <<>> /\ n_calls = 0

ExtInert == FbInert /\ BodeInert /\ AnimInert /\ MemInert

(***************************************************************************)
(* Bounds of the explored inputs.                                          *)
(***************************************************************************)
MaxLen == 2        \* longest generated coefficient sequence

Coefs == {-1, 0, 2}

SeqsUpTo(S, n) == UNION {[1..k -> S] : k \in 1..n}

\* the worked open loop of the feedback example: L = 25 / (s^2 + 3 s + 25)
ExampleNum == <<25>>
ExampleDen == <<1, 3, 25>>

NumPolys == SeqsUpTo(Coefs, MaxLen) \cup {<<1>>, ExampleNum}
DenPolys == {<<0>>, <<1>>, <<0, 1>>, <<1, 1>>, <<1, 0>>, ExampleDen}

(***************************************************************************)
(* Integer helpers.                                                        *)
(***************************************************************************)
RECURSIVE SumTo(_, _)
\* f[1] + ... + f[n]
SumTo(f, n) == IF n = 0 THEN 0 ELSE f[n] + SumTo(f, n - 1)

Max(a, b) == IF a >= b THEN a ELSE b

Zeros(n) == [i \in 1..n |-> 0]

(***************************************************************************)
(* numpy polynomial routines as used by classical_controller.py.           *)
(***************************************************************************)
RECURSIVE TrimZerosFront(_)
\* numpy.trim_zeros(c, trim='f')
TrimZerosFront(c) ==
    IF c = <<>> THEN <<>>
    ELSE IF Head(c) = 0 THEN TrimZerosFront(Tail(c)) ELSE c

RECURSIVE TrimZerosBack(_)
TrimZerosBack(c) ==
    IF c = <<>> THEN <<>>
    ELSE IF c[Len(c)] = 0 THEN TrimZerosBack(SubSeq(c, 1, Len(c) - 1)) ELSE c

\* mutant: trims the low-degree end instead of the high-degree end
Poly1dTrimBack(c) ==
    LET t == TrimZerosBack(c) IN IF Len(t) = 0 THEN <<0>> ELSE t

\* numpy.poly1d(c).coeffs: leading zeros removed, an all-zero input gives [0]
Poly1d(c) ==
    LET t == TrimZerosFront(c) IN IF Len(t) = 0 THEN <<0>> ELSE t

\* numpy.convolve(a, v), mode 'full'
Convolve(a, v) ==
    [k \in 1..(Len(a) + Len(v) - 1) |->
        SumTo([i \in 1..Len(a) |->
                  IF k + 1 - i >= 1 /\ k + 1 - i <= Len(v)
                  THEN a[i] * v[k + 1 - i] ELSE 0], Len(a))]

\* mutant: multiplies the sequences as given, without poly1d's trimming
PolymulNoTrim(a1, a2) == Convolve(a1, a2)

\* numpy.polymul(a1, a2)
polymul(a1, a2) == Convolve(Poly1d(a1), Poly1d(a2))

\* mutant: pads the shorter operand on the low-degree side in one branch
PolyaddPadBack(a1, a2) ==
    LET diff == Len(a2) - Len(a1) IN
    IF diff = 0 THEN [i \in 1..Len(a1) |-> a1[i] + a2[i]]
    ELSE IF diff > 0
         THEN LET p == Zeros(diff) \o a1 IN [i \in 1..Len(a2) |-> p[i] + a2[i]]
         ELSE LET p == a2 \o Zeros(-diff) IN [i \in 1..Len(a1) |-> a1[i] + p[i]]

\* numpy.polyadd(a1, a2)
polyadd(a1, a2) ==
    LET diff == Len(a2) - Len(a1) IN
    IF diff = 0 THEN [i \in 1..Len(a1) |-> a1[i] + a2[i]]
    ELSE IF diff > 0
         THEN LET p == Zeros(diff) \o a1 IN [i \in 1..Len(a2) |-> p[i] + a2[i]]
         ELSE LET p == Zeros(-diff) \o a2 IN [i \in 1..Len(a1) |-> a1[i] + p[i]]

\* mutant: numerators and denominators crossed
TfSeriesCrossed(n1, d1, n2, d2) == <<polymul(n1, d2), polymul(d1, n2)>>

\* tf_series(num1, den1, num2, den2)
tf_series(n1, d1, n2, d2) == <<polymul(n1, n2), polymul(d1, d2)>>

\* mutant: returns the open-loop denominator (the sum is forgotten)
TfFeedbackNoSum(n_ol, d_ol) == <<n_ol, d_ol>>

\* tf_feedback(num_ol, den_ol)
tf_feedback(n_ol, d_ol) ==
    LET num_cl == n_ol
        den_cl == polyadd(d_ol, n_ol)
    IN <<num_cl, den_cl>>

(***************************************************************************)
(* Transfer-function algebra: one call of tf_series or tf_feedback.        *)
(***************************************************************************)
InitTF ==
    /\ pc = "ready"
    /\ op = "none"
    /\ num1 = <<>> /\ den1 = <<>> /\ num2 = <<>> /\ den2 = <<>>
    /\ num_ol = <<>> /\ den_ol = <<>>
    /\ ret = <<>>
    /\ w = <<>> /\ f0_list = <<>> /\ par = <<>> /\ H = <<>> /\ stage = 0
    /\ A = <<>> /\ B = <<>> /\ C = <<>> /\ D = <<>>
    /\ H11 = <<>> /\ H21 = <<>> /\ it = 0 /\ err = "none" /\ n_inv = 0
    /\ ExtInert

CallTfSeries ==
    /\ pc = "ready"
    /\ \E n1 \in NumPolys, d1 \in DenPolys, n2 \in NumPolys, d2 \in DenPolys :
          /\ num1' = n1 /\ den1' = d1 /\ num2' = n2 /\ den2' = d2
          /\ ret' = tf_series(n1, d1, n2, d2)
    /\ op' = "tf_series"
    /\ pc' = "returned"
    /\ UNCHANGED <<num_ol, den_ol, cascVars, ssVars, extVars>>

CallTfFeedback ==
    /\ pc = "ready"
    /\ \E n \in NumPolys \cup DenPolys, d \in DenPolys \cup NumPolys :
          /\ num_ol' = n /\ den_ol' = d
          /\ ret' = tf_feedback(n, d)
    /\ op' = "tf_feedback"
    /\ pc' = "returned"
    /\ UNCHANGED <<num1, den1, num2, den2, cascVars, ssVars, extVars>>

NextTF == CallTfSeries \/ CallTfFeedback

SpecTF == InitTF /\ [][NextTF]_vars

(***************************************************************************)
(* Reference notions used to state the polynomial claims.                  *)
(***************************************************************************)
\* coefficient of s^d in the sequence p (highest degree first)
CoefAt(p, d) == IF d < Len(p) THEN p[Len(p) - d] ELSE 0

\* coefficient of s^d in the product of the polynomials p and q
ProdCoef(p, q, d) ==
    SumTo([i \in 1..(d + 1) |-> CoefAt(p, i - 1) * CoefAt(q, d - (i - 1))], d + 1)

\* the full convolution, len(p) + len(q) - 1 coefficients, highest degree first
Multiply(p, q) ==
    [k \in 1..(Len(p) + Len(q) - 1) |-> ProdCoef(p, q, Len(p) + Len(q) - 1 - k)]

\* the right-aligned coefficient-wise sum, max(len(p), len(q)) coefficients
Add(p, q) ==
    LET n == Max(Len(p), Len(q)) IN
    [k \in 1..n |-> CoefAt(p, n - k) + CoefAt(q, n - k)]

\* number of leading zero coefficients that can be dropped, keeping one coefficient
LeadZeros(p) ==
    Cardinality({k \in 1..(Len(p) - 1) : \A i \in 1..k : p[i] = 0})

Stripped(p) == SubSeq(p, LeadZeros(p) + 1, Len(p))

LeadNonZero(p) == Len(p) >= 1 /\ p[1] # 0

SeriesReturned == pc = "returned" /\ op = "tf_series"
FeedbackReturned == pc = "returned" /\ op = "tf_feedback"

(***************************************************************************)
(* C1: tf_feedback returns the numerator unchanged and, as denominator,    *)
(* the right-aligned coefficient-wise sum of den and num; for num = [25],  *)
(* den = [1, 3, 25] it returns num = [25], den = [1, 3, 50].               *)
(***************************************************************************)
C1_FeedbackFormula ==
    FeedbackReturned =>
        /\ ret[1] = num_ol
        /\ ret[2] = Add(den_ol, num_ol)
        /\ (num_ol = <<25>> /\ den_ol = <<1, 3, 25>>) => ret = <<<<25>>, <<1, 3, 50>>>>

C1_Witness ==
    /\ FeedbackReturned
    /\ num_ol = <<25>> /\ den_ol = <<1, 3, 25>>
    /\ ret = <<<<25>>, <<1, 3, 50>>>>

C4_Commutative ==
    /\ SeriesReturned =>
          /\ ret[1] = polymul(num2, num1)
          /\ ret[2] = polymul(den2, den1)
    /\ FeedbackReturned => ret[2] = polyadd(num_ol, den_ol)

C4_Witness ==
    /\ FeedbackReturned
    /\ Len(num_ol) # Len(den_ol)
    /\ num_ol # Zeros(Len(num_ol))
    /\ ret[2] = polyadd(num_ol, den_ol)

(***************************************************************************)
(* C5: the addition used in tf_feedback right-aligns the operands, sums    *)
(* coefficient by coefficient, returns max(len(p), len(q)) coefficients,   *)
(* and adding the zero polynomial [0] returns the other operand unchanged. *)
(***************************************************************************)
C5_AddRightAligned ==
    FeedbackReturned =>
        /\ Len(ret[2]) = Max(Len(den_ol), Len(num_ol))
        /\ \A d \in 0..(Len(ret[2]) - 1) :
              CoefAt(ret[2], d) = CoefAt(den_ol, d) + CoefAt(num_ol, d)
        /\ num_ol = <<0>> => ret[2] = den_ol
        /\ den_ol = <<0>> => ret[2] = num_ol

C5_Witness ==
    /\ FeedbackReturned
    /\ Len(den_ol) < Len(num_ol)
    /\ den_ol[1] # 0 /\ num_ol[1] # 0
    /\ ret[2][1] = num_ol[1]

Abs(a) == IF a < 0 THEN -a ELSE a

RECURSIVE GCD(_, _)
GCD(a, b) == IF b = 0 THEN a ELSE GCD(b, a % b)

NonFinite == [re |-> 0, im |-> 0, den |-> 0]

IsFinite(a) == a.den # 0

CNorm(re, im, den) ==
    IF den = 0 THEN NonFinite
    ELSE LET g == GCD(GCD(Abs(re), Abs(im)), Abs(den))
             sg == IF den < 0 THEN -1 ELSE 1
         IN [re |-> sg * (re \div g), im |-> sg * (im \div g), den |-> sg * (den \div g)]

\* the real number n / d
R(n, d) == CNorm(n, 0, d)

CZero == R(0, 1)
COne == R(1, 1)
\* the imaginary unit 1j
CI == CNorm(0, 1, 1)

CAdd(a, b) ==
    IF ~IsFinite(a) \/ ~IsFinite(b) THEN NonFinite
    ELSE CNorm(a.re * b.den + b.re * a.den, a.im * b.den + b.im * a.den, a.den * b.den)

CNeg(a) == [re |-> -a.re, im |-> -a.im, den |-> a.den]

CSub(a, b) == CAdd(a, CNeg(b))

CMul(a, b) ==
    IF ~IsFinite(a) \/ ~IsFinite(b) THEN NonFinite
    ELSE CNorm(a.re * b.re - a.im * b.im, a.re * b.im + a.im * b.re, a.den * b.den)

\* mutant: a zero divisor is masked, the quotient is set to zero there
CDivMasked(a, b) ==
    IF ~IsFinite(a) \/ ~IsFinite(b) THEN NonFinite
    ELSE IF b.re = 0 /\ b.im = 0 THEN [re |-> 0, im |-> 0, den |-> 1]
    ELSE CNorm((a.re * b.re + a.im * b.im) * b.den,
               (a.im * b.re - a.re * b.im) * b.den,
               a.den * (b.re * b.re + b.im * b.im))

\* a / b; a zero divisor gives a non-finite value.  The factors common to
\* the two denominators and to the two numerators are cancelled before the
\* products are formed.
CDiv(a, b) ==
    IF ~IsFinite(a) \/ ~IsFinite(b) THEN NonFinite
    ELSE IF b.re = 0 /\ b.im = 0 THEN NonFinite
    ELSE LET gd == GCD(a.den, b.den)
             g == GCD(Abs(b.re), Abs(b.im))
             c == GCD(GCD(Abs(a.re), Abs(a.im)), g)
             ar == a.re \div c
             ai == a.im \div c
             br == b.re \div g
             bi == b.im \div g
             bd == b.den \div gd
         IN CNorm((ar * br + ai * bi) * bd,
                  (ai * br - ar * bi) * bd,
                  (a.den \div gd) * (g \div c) * (br * br + bi * bi))

(***************************************************************************)
(* Isolator models of multi_sas_attenuation.py.  Angular frequencies are   *)
(* carried in units of 2 pi rad/s (the script's f, with w = 2 pi f), so    *)
(* that w0 = 2 pi f0 is the number f0; gamma is carried in the same unit.  *)
(* The factor (2 pi)^2 common to num and den cancels in num / den.         *)
(***************************************************************************)
\* num and den of H_ip_basic at one grid point
IpNum(wk, f0, beta, phi) ==
    LET w0 == f0
    IN CAdd(CMul(CMul(w0, w0), CAdd(COne, CMul(CI, phi))), CMul(beta, CMul(wk, wk)))

IpDen(wk, f0, phi) ==
    LET w0 == f0
    IN CSub(CMul(CMul(w0, w0), CAdd(COne, CMul(CI, phi))), CMul(wk, wk))

\* H_ip_basic(w, f0, beta, phi) on the whole grid
H_ip_basic(grid, f0, beta, phi) ==
    [k \in 1..Len(grid) |-> CDiv(IpNum(grid[k], f0, beta, phi), IpDen(grid[k], f0, phi))]

\* H_ip_countermass(w, f0, gamma, phi) on the whole grid: beta -> gamma
H_ip_countermass(grid, f0, gamma, phi) ==
    [k \in 1..Len(grid) |-> CDiv(IpNum(grid[k], f0, gamma, phi), IpDen(grid[k], f0, phi))]

\* num and den of H_gas_single at one grid point
GasNum(wk, f0, M, m, phi) ==
    LET w0 == f0
    IN CAdd(CMul(CMul(w0, w0), CAdd(COne, CMul(CI, phi))), CMul(CDiv(m, M), CMul(wk, wk)))

GasDen(wk, f0, M, phi, gamma) ==
    LET w0 == f0
        k0 == CMul(CMul(w0, w0), CAdd(COne, CMul(CI, phi)))
    IN CAdd(CSub(k0, CMul(wk, wk)), CMul(CMul(CI, CDiv(gamma, M)), wk))

\* H_gas_single at one grid point
GasAt(wk, f0, M, m, phi, gamma) ==
    CDiv(GasNum(wk, f0, M, m, phi), GasDen(wk, f0, M, phi, gamma))

\* H_gas_single(w, f0, M, m, phi, gamma) on the whole grid
H_gas_single(grid, f0, M, m, phi, gamma) ==
    [k \in 1..Len(grid) |-> GasAt(grid[k], f0, M, m, phi, gamma)]

\* mutant: the numerator is 1 instead of w0^2
PendNumOne(f0) == COne

\* num and den of H_pend_single at one grid point
PendNum(f0) == LET w0 == f0 IN CMul(w0, w0)

PendDen(wk, f0, Q) ==
    LET w0 == f0
    IN CAdd(CSub(CMul(w0, w0), CMul(wk, wk)), CDiv(CMul(CMul(CI, wk), w0), Q))

\* H_pend_single at one grid point
PendAt(wk, f0, Q) == CDiv(PendNum(f0), PendDen(wk, f0, Q))

\* H_pend_single(w, f0, Q) on the whole grid
H_pend_single(grid, f0, Q) == [k \in 1..Len(grid) |-> PendAt(grid[k], f0, Q)]

\* np.ones_like(w, dtype=complex)
OnesLike(grid) == [k \in 1..Len(grid) |-> COne]

\* mutant: the stage response replaces the accumulator
IAssign(acc, S) == S

\* acc *= S, element by element
IMul(acc, S) == [k \in 1..Len(acc) |-> CMul(acc[k], S[k])]

(***************************************************************************)
(* Inputs of the cascade helpers.                                          *)
(***************************************************************************)
MaxGrid == 2       \* longest frequency grid
MaxStages == 3     \* longest list of resonances

GridPoints == {R(0, 1), R(1, 1), R(2, 1), R(3, 1)}
Resonances == {R(1, 1), R(2, 1)}

Before(a, b) == a.re * b.den < b.re * a.den

\* strictly increasing grids of at most MaxGrid points of P
GridsOver(P) ==
    {g \in UNION {[1..n -> P] : n \in 0..MaxGrid} :
        \A k \in 1..(Len(g) - 1) : Before(g[k], g[k + 1])}

\* grids of non-negative frequencies
Grids == GridsOver(GridPoints)

\* grids of positive frequencies, as np.logspace gives
LogGrids == GridsOver(GridPoints \ {R(0, 1)})

ResonanceLists == UNION {[1..n -> Resonances] : n \in 0..MaxStages}

GasPars ==
    {[M |-> R(2, 1), m |-> R(1, 1), phi |-> R(0, 1), gamma |-> R(0, 1)],
     [M |-> R(1, 1), m |-> R(1, 1), phi |-> R(1, 1), gamma |-> R(1, 1)]}

PendPars == {[Q |-> R(1, 1)], [Q |-> R(3, 1)]}

(***************************************************************************)
(* H_gas_cascade and H_pend_cascade, one action per loop iteration.        *)
(***************************************************************************)
InitCascade ==
    /\ pc = "ready"
    /\ op = "none"
    /\ num1 = <<>> /\ den1 = <<>> /\ num2 = <<>> /\ den2 = <<>>
    /\ num_ol = <<>> /\ den_ol = <<>>
    /\ ret = <<>>
    /\ w \in Grids
    /\ f0_list \in ResonanceLists
    /\ par = <<>> /\ H = <<>> /\ stage = 0
    /\ A = <<>> /\ B = <<>> /\ C = <<>> /\ D = <<>>
    /\ H11 = <<>> /\ H21 = <<>> /\ it = 0 /\ err = "none" /\ n_inv = 0
    /\ ExtInert

GasCascadeEnter ==
    /\ pc = "ready"
    /\ \E p \in GasPars : par' = p
    /\ H' = OnesLike(w)
    /\ stage' = 0
    /\ op' = "H_gas_cascade"
    /\ pc' = "loop"
    /\ UNCHANGED <<tfVars, ssVars, w, f0_list, extVars>>

GasCascadeLoop ==
    /\ pc = "loop" /\ op = "H_gas_cascade"
    /\ stage < Len(f0_list)
    /\ LET f0 == f0_list[stage + 1] IN
          H' = IMul(H, H_gas_single(w, f0, par.M, par.m, par.phi, par.gamma))
    /\ stage' = stage + 1
    /\ UNCHANGED <<pc, op, tfVars, ssVars, w, f0_list, par, extVars>>

GasCascadeReturn ==
    /\ pc = "loop" /\ op = "H_gas_cascade"
    /\ stage = Len(f0_list)
    /\ pc' = "returned"
    /\ UNCHANGED <<op, tfVars, cascVars, ssVars, extVars>>

PendCascadeEnter ==
    /\ pc = "ready"
    /\ \E p \in PendPars : par' = p
    /\ H' = OnesLike(w)
    /\ stage' = 0
    /\ op' = "H_pend_cascade"
    /\ pc' = "loop"
    /\ UNCHANGED <<tfVars, ssVars, w, f0_list, extVars>>

PendCascadeLoop ==
    /\ pc = "loop" /\ op = "H_pend_cascade"
    /\ stage < Len(f0_list)
    /\ LET f0 == f0_list[stage + 1] IN
          H' = IMul(H, H_pend_single(w, f0, par.Q))
    /\ stage' = stage + 1
    /\ UNCHANGED <<pc, op, tfVars, ssVars, w, f0_list, par, extVars>>

PendCascadeReturn ==
    /\ pc = "loop" /\ op = "H_pend_cascade"
    /\ stage = Len(f0_list)
    /\ pc' = "returned"
    /\ UNCHANGED <<op, tfVars, cascVars, ssVars, extVars>>

NextCascade ==
    \/ GasCascadeEnter \/ GasCascadeLoop \/ GasCascadeReturn
    \/ PendCascadeEnter \/ PendCascadeLoop \/ PendCascadeReturn

SpecCascade == InitCascade /\ [][NextCascade]_vars

(***************************************************************************)
(* Reference notions used to state the cascade claim.                      *)
(***************************************************************************)
\* the single-stage response at grid index k for the resonance f0
SingleAt(k, f0) ==
    IF op = "H_gas_cascade"
    THEN H_gas_single(w, f0, par.M, par.m, par.phi, par.gamma)[k]
    ELSE H_pend_single(w, f0, par.Q)[k]

RECURSIVE StageProduct(_, _)
\* product of the single-stage responses of stages j .. len(f0_list) at index k
StageProduct(k, j) ==
    IF j > Len(f0_list) THEN COne
    ELSE CMul(SingleAt(k, f0_list[j]), StageProduct(k, j + 1))

RECURSIVE CPow(_, _)
CPow(a, n) == IF n = 0 THEN COne ELSE CMul(CPow(a, n - 1), a)

CascadeReturned == pc = "returned" /\ op \in {"H_gas_cascade", "H_pend_cascade"}

(***************************************************************************)
(* C7: the cascade helpers return, at each grid index, the product over    *)
(* the list of the single-stage model at that index with that stage's      *)
(* resonance and the shared parameters; the empty list gives all ones of   *)
(* the grid's length, and N identical stages give the single-stage         *)
(* response to the N-th power.                                             *)
(***************************************************************************)
C7_CascadeIsProduct ==
    CascadeReturned =>
        /\ Len(H) = Len(w)
        /\ \A k \in 1..Len(w) : H[k] = StageProduct(k, 1)
        /\ f0_list = <<>> => \A k \in 1..Len(w) : H[k] = COne
        /\ (\A j \in 1..Len(f0_list) : f0_list[j] = f0_list[1]) =>
              \A k \in 1..Len(w) : H[k] = CPow(SingleAt(k, f0_list[1]), Len(f0_list))

C7_Witness ==
    /\ CascadeReturned
    /\ op = "H_pend_cascade"
    /\ Len(f0_list) = 3 /\ f0_list[1] = f0_list[2] /\ f0_list[2] = f0_list[3]
    /\ Len(w) = 2
    /\ \A k \in 1..2 : IsFinite(H[k]) /\ H[k] # COne
    /\ H[2] = CPow(SingleAt(2, f0_list[1]), 3)

(***************************************************************************)
(* Dense complex matrices (sequences of rows) with numpy's shape rules.    *)
(***************************************************************************)
\* a matrix whose entries are computed once, when it is built
Dense(X) == [r \in 1..Len(X) |-> X[r] \o <<>>] \o <<>>

Rows(X) == Len(X)
Cols(X) == Len(X[1])

\* integer matrix given by rows, as a complex matrix
Mat(rows) == [r \in 1..Len(rows) |-> [c \in 1..Len(rows[r]) |-> R(rows[r][c], 1)]]

\* numpy broadcasting of two 2-D shapes
Broadcastable(X, Y) ==
    /\ (Rows(X) = Rows(Y) \/ Rows(X) = 1 \/ Rows(Y) = 1)
    /\ (Cols(X) = Cols(Y) \/ Cols(X) = 1 \/ Cols(Y) = 1)

BEntry(X, r, c) ==
    X[IF Rows(X) = 1 THEN 1 ELSE r][IF Cols(X) = 1 THEN 1 ELSE c]

\* X - Y with broadcasting
BSub(X, Y) ==
    Dense([r \in 1..Max(Rows(X), Rows(Y)) |->
        [c \in 1..Max(Cols(X), Cols(Y)) |-> CSub(BEntry(X, r, c), BEntry(Y, r, c))]])

\* X + Y with broadcasting
BAdd(X, Y) ==
    Dense([r \in 1..Max(Rows(X), Rows(Y)) |->
        [c \in 1..Max(Cols(X), Cols(Y)) |-> CAdd(BEntry(X, r, c), BEntry(Y, r, c))]])

RECURSIVE CSum(_, _)
\* f[1] + ... + f[n] over complex values
CSum(f, n) == IF n = 0 THEN CZero ELSE CAdd(CSum(f, n - 1), f[n])

\* X @ Y for 2-D operands whose inner dimensions agree
MatMul(X, Y) ==
    Dense([r \in 1..Rows(X) |->
        [c \in 1..Cols(Y) |->
            CSum([k \in 1..Cols(X) |-> CMul(X[r][k], Y[k][c])], Cols(X))]])

\* X without row i and column j
Minor(X, i, j) ==
    Dense([r \in 1..(Rows(X) - 1) |->
        [c \in 1..(Cols(X) - 1) |->
            X[IF r < i THEN r ELSE r + 1][IF c < j THEN c ELSE c + 1]]])

RECURSIVE Det(_)
Det(X) ==
    IF Rows(X) = 1 THEN X[1][1]
    ELSE CSum([j \in 1..Cols(X) |->
                  LET t == CMul(X[1][j], Det(Minor(X, 1, j)))
                  IN IF j % 2 = 1 THEN t ELSE CNeg(t)], Cols(X))

\* the inverse of a non-singular square matrix
Inv(X) ==
    LET d == Det(X) IN
    Dense([r \in 1..Rows(X) |->
        [c \in 1..Cols(X) |->
            LET cof == IF Rows(X) = 1 THEN COne ELSE Det(Minor(X, c, r))
            IN CDiv(IF (r + c) % 2 = 0 THEN cof ELSE CNeg(cof), d)]])

\* the size of the identity in the response formula, np.eye(4)
EyeN == 4

\* 1j*wi*np.eye(4)
JwEye(wi) ==
    Dense([r \in 1..EyeN |-> [c \in 1..EyeN |-> IF r = c THEN CMul(CI, wi) ELSE CZero]])

Raised(e, inv) == [err |-> e, inv |-> inv, h11 |-> <<>>, h21 |-> <<>>]

\* One pass of the loop body
\*     G = C @ la.inv(1j*wi*np.eye(4) - A) @ B + D
\*     H11.append(G[0,0]); H21.append(G[1,0])
\* in Python's evaluation order: what it appends, the exception that ends it
\* and whether la.inv was called.
LoopBody(Am, Bm, Cm, Dm, wi) ==
    IF ~Broadcastable(JwEye(wi), Am) THEN Raised("ValueError", 0)
    ELSE LET S == BSub(JwEye(wi), Am) IN
    IF Det(S) = CZero THEN Raised("LinAlgError", 1)
    ELSE IF Cols(Cm) # Rows(S) THEN Raised("ValueError", 1)
    ELSE IF Cols(S) # Rows(Bm) THEN Raised("ValueError", 1)
    ELSE LET P == MatMul(MatMul(Cm, Inv(S)), Bm) IN
    IF ~Broadcastable(P, Dm) THEN Raised("ValueError", 1)
    ELSE LET G == BAdd(P, Dm) IN
    IF Rows(G) < 2
    THEN [err |-> "IndexError", inv |-> 1, h11 |-> <<G[1][1]>>, h21 |-> <<>>]
    ELSE [err |-> "none", inv |-> 1, h11 |-> <<G[1][1]>>, h21 |-> <<G[2][1]>>]

(***************************************************************************)
(* Inputs of the frequency-response loop.                                  *)
(***************************************************************************)
\* the two-degree-of-freedom plant of the script, with small integer entries
A_plant == Mat(<<<<0, 1, 0, 0>>, <<-1, -1, 1, 0>>, <<0, 0, 0, 1>>, <<1, 0, -4, -1>>>>)
\* the same plant without damping and coupling: poles at w = 1 and w = 2
A_undamped == Mat(<<<<0, 1, 0, 0>>, <<-1, 0, 0, 0>>, <<0, 0, 0, 1>>, <<0, 0, -4, 0>>>>)
A_scalar == Mat(<<<<-1>>>>)
A_3x3 == Mat(<<<<0, 1, 0>>, <<-1, -1, 0>>, <<0, 0, -1>>>>)

B_plant == Mat(<<<<0>>, <<1>>, <<0>>, <<0>>>>)
B_scalar == Mat(<<<<1>>>>)
B_3rows == Mat(<<<<0>>, <<1>>, <<0>>>>)

C_plant == Mat(<<<<1, 0, 0, 0>>, <<0, 0, 1, 0>>>>)
C_scalar == Mat(<<<<1>>>>)

D_plant == Mat(<<<<0>>, <<0>>>>)
D_scalar == Mat(<<<<0>>>>)

SetA == {A_plant, A_undamped, A_scalar, A_3x3}
SetB == {B_plant, B_scalar, B_3rows}
SetC == {C_plant, C_scalar}
SetD == {D_plant, D_scalar}

(***************************************************************************)
(* The frequency-response loop of demo_statespace_to_tf (and of its helper *)
(* frf), one action per loop iteration.                                    *)
(***************************************************************************)
InitSS ==
    /\ pc = "ready"
    /\ op = "none"
    /\ num1 = <<>> /\ den1 = <<>> /\ num2 = <<>> /\ den2 = <<>>
    /\ num_ol = <<>> /\ den_ol = <<>>
    /\ ret = <<>>
    /\ w \in LogGrids
    /\ f0_list = <<>> /\ par = <<>> /\ H = <<>> /\ stage = 0
    /\ A \in SetA /\ B \in SetB /\ C \in SetC /\ D \in SetD
    /\ H11 = <<>> /\ H21 = <<>> /\ it = 0 /\ err = "none" /\ n_inv = 0
    /\ ExtInert

FrfEnter ==
    /\ pc = "ready"
    /\ H11' = <<>> /\ H21' = <<>>
    /\ it' = 0
    /\ op' = "frf"
    /\ pc' = "loop"
    /\ UNCHANGED <<tfVars, cascVars, A, B, C, D, err, n_inv, extVars>>

\* mutant: each new value is put in front of the earlier ones
FrfLoopPrepend ==
    /\ pc = "loop" /\ op = "frf"
    /\ it < Len(w)
    /\ LET r == LoopBody(A, B, C, D, w[it + 1]) IN
          /\ H11' = r.h11 \o H11
          /\ H21' = r.h21 \o H21
          /\ n_inv' = n_inv + r.inv
          /\ err' = r.err
          /\ IF r.err = "none"
             THEN it' = it + 1 /\ pc' = "loop"
             ELSE it' = it /\ pc' = "raised"
    /\ UNCHANGED <<op, tfVars, cascVars, A, B, C, D, extVars>>

FrfLoop ==
    /\ pc = "loop" /\ op = "frf"
    /\ it < Len(w)
    /\ LET r == LoopBody(A, B, C, D, w[it + 1]) IN
          /\ H11' = H11 \o r.h11
          /\ H21' = H21 \o r.h21
          /\ n_inv' = n_inv + r.inv
          /\ err' = r.err
          /\ IF r.err = "none"
             THEN it' = it + 1 /\ pc' = "loop"
             ELSE it' = it /\ pc' = "raised"
    /\ UNCHANGED <<op, tfVars, cascVars, A, B, C, D, extVars>>

FrfReturn ==
    /\ pc = "loop" /\ op = "frf"
    /\ it = Len(w)
    /\ pc' = "returned"
    /\ UNCHANGED <<op, tfVars, cascVars, ssVars, extVars>>

NextSS == FrfEnter \/ FrfLoop \/ FrfReturn

SpecSS == InitSS /\ [][NextSS]_vars

(***************************************************************************)
(* Reference notions used to state the state-space claims.                 *)
(***************************************************************************)
FrfEnded == op = "frf" /\ pc \in {"returned", "raised"}

ScalarSystem == A = A_scalar /\ B = B_scalar /\ C = C_scalar /\ D = D_scalar

\* 1 / (jw + 1)
FirstOrderLag(wk) == CDiv(COne, CAdd(CMul(CI, wk), COne))

\* C X + D at the grid point wk, X being the solution of (jw I - A) X = B
ResponseAt(wk) ==
    LET S == BSub(JwEye(wk), A)
        X == MatMul(Inv(S), B)
    IN BAdd(MatMul(C, X), D)

\* X = (jw I - A)^-1 B does solve (jw I - A) X = B
SolvesAt(wk) ==
    LET S == BSub(JwEye(wk), A) IN MatMul(S, MatMul(Inv(S), B)) = B

(***************************************************************************)
(* C8: for A=[[-1]], B=[[1]], C=[[1]], D=[[0]] the frequency response      *)
(* computed by the loop equals 1/(jw+1) at every sampled w, and is         *)
(* 0.5 - 0.5j at w = 1.                                                    *)
(***************************************************************************)
C8_ScalarResponse ==
    (FrfEnded /\ ScalarSystem) =>
        /\ pc = "returned"
        /\ Len(H11) = Len(w)
        /\ \A k \in 1..Len(w) :
              /\ H11[k] = FirstOrderLag(w[k])
              /\ w[k] = R(1, 1) => H11[k] = CNorm(1, -1, 2)

(***************************************************************************)
(* C9: the loop appends exactly one value per grid point, in grid order:   *)
(* the lists grow with the loop counter, the returned lists have the       *)
(* grid's length, and element i is the response at grid point i for the    *)
(* fixed matrices (A, B, C, D), whatever the other elements are.           *)
(***************************************************************************)
C9_OnePerGridPoint ==
    op = "frf" =>
        /\ Len(H21) = it
        /\ Len(H11) \in {it, it + 1}
        /\ pc \in {"loop", "returned"} => Len(H11) = it
        /\ pc = "returned" => (Len(H11) = Len(w) /\ Len(H21) = Len(w))
        /\ \A i \in 1..Len(H11) : SolvesAt(w[i]) /\ H11[i] = ResponseAt(w[i])[1][1]
        /\ \A i \in 1..Len(H21) : H21[i] = ResponseAt(w[i])[2][1]

C9_Witness ==
    /\ op = "frf" /\ pc = "returned"
    /\ A = A_plant /\ B = B_plant /\ C = C_plant /\ D = D_plant
    /\ Len(w) = 2 /\ Len(H11) = 2 /\ Len(H21) = 2
    /\ H11[1] # H11[2]
    /\ H11[2] = ResponseAt(w[2])[1][1]

(***************************************************************************)
(* C10: when B's row count differs from A's row count, an error is raised  *)
(* before any inversion is performed and before any output element is      *)
(* produced.                                                               *)
(***************************************************************************)
C10_MismatchRaisesFirst ==
    (op = "frf" /\ Rows(B) # Rows(A)) =>
        /\ n_inv = 0
        /\ H11 = <<>> /\ H21 = <<>>
        /\ (FrfEnded /\ w # <<>>) => pc = "raised"

(***************************************************************************)
(* C11: for dimensionally consistent (A, B, C, D) the loop raises no       *)
(* error: it returns one value per grid point, and where jwI - A is        *)
(* exactly singular the value at that point is infinite/NaN.               *)
(***************************************************************************)
PlantShaped == Rows(A) = EyeN /\ Cols(A) = EyeN /\ B = B_plant /\ C = C_plant /\ D = D_plant

SingularAt(wk) == Det(BSub(JwEye(wk), A)) = CZero

C11_SingularGivesNonFinite ==
    (FrfEnded /\ PlantShaped) =>
        /\ pc = "returned"
        /\ err = "none"
        /\ Len(H11) = Len(w) /\ Len(H21) = Len(w)
        /\ \A k \in 1..Len(w) : SingularAt(w[k]) => ~IsFinite(H11[k])

(***************************************************************************)
(* The four isolator models called once each on a frequency grid that may  *)
(* hold a point where the model's denominator is exactly zero.             *)
(***************************************************************************)
IsoF0 == {R(0, 1), R(1, 1), R(2, 1)}
IpPars == [f0 : IsoF0, beta : {R(0, 1), R(1, 1)}, phi : {R(0, 1), R(1, 1)}]
IpCmPars == [f0 : IsoF0, gamma : {R(0, 1), R(1, 1)}, phi : {R(0, 1), R(1, 1)}]
IsoGasPars ==
    [f0 : IsoF0, M : {R(1, 1), R(2, 1)}, m : {R(1, 1)}, phi : {R(0, 1), R(1, 1)},
     gamma : {R(0, 1), R(1, 1)}]
IsoPendPars == [f0 : IsoF0, Q : {R(1, 1), R(3, 1)}]

InitIso ==
    /\ pc = "ready"
    /\ op = "none"
    /\ num1 = <<>> /\ den1 = <<>> /\ num2 = <<>> /\ den2 = <<>>
    /\ num_ol = <<>> /\ den_ol = <<>>
    /\ ret = <<>>
    /\ w \in Grids
    /\ f0_list = <<>> /\ par = <<>> /\ H = <<>> /\ stage = 0
    /\ A = <<>> /\ B = <<>> /\ C = <<>> /\ D = <<>>
    /\ H11 = <<>> /\ H21 = <<>> /\ it = 0 /\ err = "none" /\ n_inv = 0
    /\ ExtInert

CallIpBasic ==
    /\ pc = "ready"
    /\ \E p \in IpPars :
          /\ par' = p
          /\ H' = H_ip_basic(w, p.f0, p.beta, p.phi)
    /\ op' = "H_ip_basic"
    /\ pc' = "returned"
    /\ UNCHANGED <<tfVars, w, f0_list, stage, ssVars, extVars>>

CallIpCountermass ==
    /\ pc = "ready"
    /\ \E p \in IpCmPars :
          /\ par' = p
          /\ H' = H_ip_countermass(w, p.f0, p.gamma, p.phi)
    /\ op' = "H_ip_countermass"
    /\ pc' = "returned"
    /\ UNCHANGED <<tfVars, w, f0_list, stage, ssVars, extVars>>

CallGasSingle ==
    /\ pc = "ready"
    /\ \E p \in IsoGasPars :
          /\ par' = p
          /\ H' = H_gas_single(w, p.f0, p.M, p.m, p.phi, p.gamma)
    /\ op' = "H_gas_single"
    /\ pc' = "returned"
    /\ UNCHANGED <<tfVars, w, f0_list, stage, ssVars, extVars>>

CallPendSingle ==
    /\ pc = "ready"
    /\ \E p \in IsoPendPars :
          /\ par' = p
          /\ H' = H_pend_single(w, p.f0, p.Q)
    /\ op' = "H_pend_single"
    /\ pc' = "returned"
    /\ UNCHANGED <<tfVars, w, f0_list, stage, ssVars, extVars>>

NextIso == CallIpBasic \/ CallIpCountermass \/ CallGasSingle \/ CallPendSingle

SpecIso == InitIso /\ [][NextIso]_vars

IsoOps == {"H_ip_basic", "H_ip_countermass", "H_gas_single", "H_pend_single"}

IsoReturned == op \in IsoOps /\ pc = "returned"

\* the numerator and the denominator the called model forms at grid point wk
NumAt(wk) ==
    IF op = "H_ip_basic" THEN IpNum(wk, par.f0, par.beta, par.phi)
    ELSE IF op = "H_ip_countermass" THEN IpNum(wk, par.f0, par.gamma, par.phi)
    ELSE IF op = "H_gas_single" THEN GasNum(wk, par.f0, par.M, par.m, par.phi)
    ELSE PendNum(par.f0)

DenAt(wk) ==
    IF op \in {"H_ip_basic", "H_ip_countermass"} THEN IpDen(wk, par.f0, par.phi)
    ELSE IF op = "H_gas_single" THEN GasDen(wk, par.f0, par.M, par.phi, par.gamma)
    ELSE PendDen(wk, par.f0, par.Q)

(***************************************************************************)
(* C12: each isolator model returns one entry per grid point and does not  *)
(* raise; the entry is infinite/NaN exactly where the denominator is zero, *)
(* and everywhere else it is the finite value q with q * den = num.        *)
(***************************************************************************)
C12_ZeroDenominatorPropagates ==
    IsoReturned =>
        /\ err = "none"
        /\ Len(H) = Len(w)
        /\ \A k \in 1..Len(w) :
              IF DenAt(w[k]) = CZero
              THEN ~IsFinite(H[k])
              ELSE IsFinite(H[k]) /\ CMul(H[k], DenAt(w[k])) = NumAt(w[k])

C12_Witness ==
    /\ IsoReturned
    /\ op = "H_ip_basic"
    /\ Len(w) = 2
    /\ DenAt(w[1]) = CZero /\ ~IsFinite(H[1])
    /\ DenAt(w[2]) # CZero /\ IsFinite(H[2]) /\ H[2] # CZero

(***************************************************************************)
(* Static output feedback of demo_statespace_to_tf: the closed loop on x1  *)
(* (Acl, Bcl, Ccl, Dcl) and the P and PD closed-loop state matrices.       *)
(***************************************************************************)
\* rows a+1..b of X, the slice X[a:b, :]
RowSlice(X, a, b) == [r \in 1..(b - a) |-> X[a + r]] \o <<>>

\* the scalar c times the matrix X
ScalarMul(c, X) == Dense([r \in 1..Rows(X) |-> [j \in 1..Cols(X) |-> CMul(c, X[r][j])]])

\* Acl = A - B @ K @ C1
ClosedState(Am, Bm, Km, C1m) == BSub(Am, MatMul(MatMul(Bm, Km), C1m))

\* mutant: the output matrix is only copied
ClosedOutputCopy(Cm, Dm, Km, C1m) == Cm

\* Ccl = C - D @ K @ C1
ClosedOutput(Cm, Dm, Km, C1m) == BSub(Cm, MatMul(MatMul(Dm, Km), C1m))

\* Acl_PD = A - B @ (Kp*Cx + Kd*Cv)
ClosedStatePD(Am, Bm, Kp, Cx, Kd, Cv) ==
    BSub(Am, MatMul(Bm, BAdd(ScalarMul(Kp, Cx), ScalarMul(Kd, Cv))))

B_alt == Mat(<<<<1>>, <<0>>, <<0>>, <<2>>>>)
C_alt == Mat(<<<<0, 1, 0, 0>>, <<1, 0, 0, 1>>>>)
D_feed == Mat(<<<<1>>, <<2>>>>)
\* the velocity measurement of the PD loop
Cv_plant == Mat(<<<<0, 1, 0, 0>>>>)

Gains == {R(1, 1), R(2, 1), R(150, 1)}
KpSet == {R(1, 1), R(50, 1)}
KdSet == {R(0, 1), R(10, 1)}

InitFB ==
    /\ pc = "ready"
    /\ op = "none"
    /\ num1 = <<>> /\ den1 = <<>> /\ num2 = <<>> /\ den2 = <<>>
    /\ num_ol = <<>> /\ den_ol = <<>>
    /\ ret = <<>>
    /\ w = <<>> /\ f0_list = <<>> /\ par = <<>> /\ H = <<>> /\ stage = 0
    /\ A \in {A_plant, A_undamped}
    /\ B \in {B_plant, B_alt}
    /\ C \in {C_plant, C_alt}
    /\ D \in {D_plant, D_feed}
    /\ H11 = <<>> /\ H21 = <<>> /\ it = 0 /\ err = "none" /\ n_inv = 0
    /\ FbInert /\ BodeInert /\ AnimInert /\ MemInert

\* K = np.array([[k]]); C1 = C[0:1,:]; Acl, Bcl, Ccl, Dcl
CloseLoop ==
    /\ pc = "ready"
    /\ \E k \in Gains :
          LET C1 == RowSlice(C, 0, 1) IN
          /\ K' = <<<<k>>>>
          /\ Cfb' = C1
          /\ Acl' = ClosedState(A, B, <<<<k>>>>, C1)
          /\ Bcl' = B
          /\ Ccl' = ClosedOutput(C, D, <<<<k>>>>, C1)
          /\ Dcl' = D
    /\ op' = "close_loop"
    /\ pc' = "returned"
    /\ UNCHANGED <<tfVars, cascVars, ssVars, bodeVars, animVars, memVars>>

\* Cx = C[0:1,:]; Acl_P = A - B @ np.array([[Kp]]) @ Cx
CloseLoopP ==
    /\ pc = "ready"
    /\ \E Kp \in KpSet :
          LET Cx == RowSlice(C, 0, 1) IN
          /\ K' = <<<<Kp>>>>
          /\ Cfb' = Cx
          /\ Acl' = ClosedState(A, B, <<<<Kp>>>>, Cx)
    /\ op' = "close_loop_P"
    /\ pc' = "returned"
    /\ UNCHANGED <<tfVars, cascVars, ssVars, Bcl, Ccl, Dcl, bodeVars, animVars, memVars>>

\* Acl_PD = A - B @ (Kp*Cx + Kd*Cv): the gains (Kp, Kd) act on the
\* measurements (Cx; Cv)
CloseLoopPD ==
    /\ pc = "ready"
    /\ \E Kp \in KpSet, Kd \in KdSet :
          LET Cx == RowSlice(C, 0, 1) IN
          /\ K' = <<<<Kp, Kd>>>>
          /\ Cfb' = Cx \o Cv_plant
          /\ Acl' = ClosedStatePD(A, B, Kp, Cx, Kd, Cv_plant)
    /\ op' = "close_loop_PD"
    /\ pc' = "returned"
    /\ UNCHANGED <<tfVars, cascVars, ssVars, Bcl, Ccl, Dcl, bodeVars, animVars, memVars>>

NextFB == CloseLoop \/ CloseLoopP \/ CloseLoopPD

SpecFB == InitFB /\ [][NextFB]_vars

FbOps == {"close_loop", "close_loop_P", "close_loop_PD"}

\* entry (r, c) of the product X Y Z, summed term by term
TripleEntry(X, Y, Z, r, c) ==
    CSum([i \in 1..Cols(X) |->
             CSum([j \in 1..Cols(Y) |-> CMul(CMul(X[r][i], Y[i][j]), Z[j][c])], Cols(Y))],
         Cols(X))

IsZeroMatrix(X) == \A r \in 1..Rows(X) : \A c \in 1..Cols(X) : X[r][c] = CZero

\* what the claim says of a state in which a closed loop has been formed
ClosedLoopFormed ==
    (op \in FbOps /\ pc = "returned") =>
        /\ Rows(Acl) = Rows(A) /\ Cols(Acl) = Cols(A)
        /\ \A r \in 1..Rows(A) : \A c \in 1..Cols(A) :
              Acl[r][c] = CSub(A[r][c], TripleEntry(B, K, Cfb, r, c))
        /\ op = "close_loop" =>
              /\ Bcl = B /\ Dcl = D
              /\ Rows(Ccl) = Rows(C) /\ Cols(Ccl) = Cols(C)
              /\ \A r \in 1..Rows(C) : \A c \in 1..Cols(C) :
                    Ccl[r][c] = CSub(C[r][c], TripleEntry(D, K, Cfb, r, c))
              /\ IsZeroMatrix(D) => Ccl = C

(***************************************************************************)
(* C13: static output feedback with gain K on the measurement C_feedback   *)
(* gives the state matrix A - B K C_feedback (also when C_feedback is not  *)
(* the output matrix and when several gains act on several measurements),  *)
(* B and D carried over, the output matrix C - D K C_feedback, which is C  *)
(* when D is zero; A, B, C and D themselves are left as they were.         *)
(***************************************************************************)
C13_OutputFeedback ==
    []ClosedLoopFormed /\ [][A' = A /\ B' = B /\ C' = C /\ D' = D]_vars

C13_Witness ==
    /\ op = "close_loop_PD" /\ pc = "returned"
    /\ K = <<<<R(50, 1), R(10, 1)>>>>
    /\ Cfb # C
    /\ Acl # A
    /\ D = D_feed

(***************************************************************************)
(* bode_mag_phase of classical_controller.py.  Angles are carried in       *)
(* degrees: the unwrapping period 2 pi is 360 and the final factor         *)
(* 180 / pi is the change of unit.  An angle is exact for a response on    *)
(* one of the eight directions that are multiples of 45 degrees; the       *)
(* explored inputs are those whose responses lie on these directions.      *)
(* A magnitude is exact in dB when |h|^2 is a power of ten, and is kept    *)
(* as the unevaluated 10 log10(n / d) otherwise.                           *)
(***************************************************************************)
RECURSIVE Horner(_, _, _, _)
\* np.polyval: y = y * x + p[i], from the leading coefficient on
Horner(p, x, i, y) ==
    IF i > Len(p) THEN y ELSE Horner(p, x, i + 1, CAdd(CMul(y, x), R(p[i], 1)))

polyval(p, x) == Horner(p, x, 1, CZero)

\* sig.freqs(num, den, worN=w): h = polyval(num, jw) / polyval(den, jw)
freqs(b, a, grid) ==
    [k \in 1..Len(grid) |->
        CDiv(polyval(b, CMul(CI, grid[k])), polyval(a, CMul(CI, grid[k])))]

\* an angle or a phase: a number of degrees, or nan
Deg(d) == [fin |-> TRUE, deg |-> d]
NaN == [fin |-> FALSE, deg |-> 0]

ExactAngle(z) ==
    ~IsFinite(z) \/ z.re = 0 \/ z.im = 0 \/ Abs(z.re) = Abs(z.im)

\* np.angle(z) in degrees.  The angle of a negative real is +180 or -180
\* with the sign of its zero imaginary part, which exact arithmetic does
\* not carry: both outcomes are kept.
Angles(z) ==
    IF ~IsFinite(z) THEN {NaN}
    ELSE IF z.im = 0 THEN (IF z.re >= 0 THEN {Deg(0)} ELSE {Deg(180), Deg(-180)})
    ELSE IF z.re = 0 THEN (IF z.im > 0 THEN {Deg(90)} ELSE {Deg(-90)})
    ELSE IF z.re > 0 THEN (IF z.im > 0 THEN {Deg(45)} ELSE {Deg(-45)})
    ELSE (IF z.im > 0 THEN {Deg(135)} ELSE {Deg(-135)})

\* the sequences np.angle(h) can be
AngleSeqs(hs) ==
    {a \in [1..Len(hs) -> {Deg(d) : d \in {-180, -135, -90, -45, 0, 45, 90, 135, 180}} \cup {NaN}] :
        \A k \in 1..Len(hs) : a[k] \in Angles(hs[k])}

DSub(a, b) == IF a.fin /\ b.fin THEN Deg(a.deg - b.deg) ELSE NaN
DAdd(a, b) == IF a.fin /\ b.fin THEN Deg(a.deg + b.deg) ELSE NaN

\* the correction np.unwrap adds for the jump dd between two samples
PhCorrect(dd) ==
    IF ~dd.fin THEN NaN
    ELSE LET m == ((dd.deg + 180) % 360) - 180
             ddmod == IF m = -180 /\ dd.deg > 0 THEN 180 ELSE m
         IN IF Abs(dd.deg) < 180 THEN Deg(0) ELSE Deg(ddmod - dd.deg)

RECURSIVE CumCorrect(_, _)
\* ph_correct.cumsum() at index i (0 before the first jump)
CumCorrect(p, i) ==
    IF i = 0 THEN Deg(0)
    ELSE DAdd(CumCorrect(p, i - 1), PhCorrect(DSub(p[i + 1], p[i])))

\* mutant: the raw angles are returned as they are
NoUnwrap(p) == p

\* np.unwrap(p): up[0] = p[0], up[1:] = p[1:] + ph_correct.cumsum()
unwrap(p) ==
    [k \in 1..Len(p) |-> IF k = 1 THEN p[1] ELSE DAdd(p[k], CumCorrect(p, k - 1))]

RECURSIVE Log10Exact(_, _)
\* k with 10^k = n / d when there is one within the given depth
Log10Exact(n, d) ==
    IF n = d THEN 0
    ELSE IF n > d /\ n % 10 = 0 THEN 1 + Log10Exact(n \div 10, d)
    ELSE IF d > n /\ d % 10 = 0 THEN Log10Exact(n, d \div 10) - 1
    ELSE 1000

IsPowerOfTen(n, d) == Abs(Log10Exact(n, d)) < 500

\* mutant: the magnitude is returned without the logarithm
MagLinear(z) ==
    IF ~IsFinite(z) THEN [kind |-> "nonfinite", n |-> 0, d |-> 1]
    ELSE [kind |-> "db", n |-> z.re * z.re + z.im * z.im, d |-> z.den * z.den]

\* 20*np.log10(np.abs(z)) = 10 log10(|z|^2)
MagDb(z) ==
    IF ~IsFinite(z) THEN [kind |-> "nonfinite", n |-> 0, d |-> 1]
    ELSE LET n2 == z.re * z.re + z.im * z.im
             d2 == z.den * z.den
         IN IF n2 = 0 THEN [kind |-> "neg_inf", n |-> 0, d |-> 1]
            ELSE IF IsPowerOfTen(n2, d2)
            THEN [kind |-> "db", n |-> 10 * Log10Exact(n2, d2), d |-> 1]
            ELSE [kind |-> "10log10", n |-> n2, d |-> d2]

BodeNums == {<<1>>, <<2>>, <<10>>, <<1, 0>>}
BodeDens ==
    {<<1>>, <<2>>, <<1, 0>>, <<1, 0, 0>>, <<1, 1>>, <<1, 0, 1>>, <<1, 1, 2, 0>>,
     <<1, 1, 10, 4, 9>>}

InitBode ==
    /\ pc = "ready"
    /\ op = "none"
    /\ num1 = <<>> /\ den1 = <<>> /\ num2 = <<>> /\ den2 = <<>>
    /\ num_ol = <<>> /\ den_ol = <<>>
    /\ ret = <<>>
    /\ w \in Grids
    /\ f0_list = <<>> /\ par = <<>> /\ H = <<>> /\ stage = 0
    /\ A = <<>> /\ B = <<>> /\ C = <<>> /\ D = <<>>
    /\ H11 = <<>> /\ H21 = <<>> /\ it = 0 /\ err = "none" /\ n_inv = 0
    /\ bode_num \in BodeNums /\ bode_den \in BodeDens
    /\ \A k \in 1..Len(w) : ExactAngle(freqs(bode_num, bode_den, w)[k])
    /\ h = <<>> /\ angle_h = <<>> /\ mag_db = <<>> /\ ph_deg = <<>>
    /\ FbInert /\ AnimInert /\ MemInert

\* w, h = sig.freqs(num, den, worN=w)
BodeFreqs ==
    /\ pc = "ready"
    /\ h' = freqs(bode_num, bode_den, w)
    /\ op' = "bode_mag_phase"
    /\ pc' = "freqs"
    /\ UNCHANGED <<tfVars, cascVars, ssVars, fbVars, bode_num, bode_den, angle_h, mag_db,
                   ph_deg, animVars, memVars>>

\* mag_db = 20*np.log10(np.abs(h))
BodeMag ==
    /\ pc = "freqs"
    /\ mag_db' = [k \in 1..Len(h) |-> MagDb(h[k])]
    /\ pc' = "mag"
    /\ UNCHANGED <<op, tfVars, cascVars, ssVars, fbVars, bode_num, bode_den, h, angle_h,
                   ph_deg, animVars, memVars>>

\* ph_deg = np.unwrap(np.angle(h))*180/np.pi; return mag_db, ph_deg
BodePhase ==
    /\ pc = "mag"
    /\ \E a \in AngleSeqs(h) :
          /\ angle_h' = a
          /\ ph_deg' = unwrap(a)
    /\ pc' = "returned"
    /\ UNCHANGED <<op, tfVars, cascVars, ssVars, fbVars, bode_num, bode_den, h, mag_db,
                   animVars, memVars>>

NextBode == BodeFreqs \/ BodeMag \/ BodePhase

SpecBode == InitBode /\ [][NextBode]_vars

BodeReturned == op = "bode_mag_phase" /\ pc = "returned"

\* index of the first response sample that is not finite, Len(h) + 1 if none
FirstNonFinite ==
    IF \A k \in 1..Len(h) : IsFinite(h[k]) THEN Len(h) + 1
    ELSE CHOOSE k \in 1..Len(h) :
            ~IsFinite(h[k]) /\ \A j \in 1..(k - 1) : IsFinite(h[j])

\* phase sample k continues the branch of the first sample
Continuous(k) ==
    /\ ph_deg[k].fin
    /\ (ph_deg[k].deg - angle_h[k].deg) % 360 = 0
    /\ k = 1 => ph_deg[1] = angle_h[1]
    /\ k > 1 => Abs(ph_deg[k].deg - ph_deg[k - 1].deg) <= 180

UnityResponse == \A k \in 1..Len(h) : h[k] = COne

C15_UnityIsZeroDbZeroDeg ==
    (BodeReturned /\ UnityResponse) =>
        /\ Len(mag_db) = Len(w) /\ Len(ph_deg) = Len(w)
        /\ \A k \in 1..Len(w) :
              /\ mag_db[k] = [kind |-> "db", n |-> 0, d |-> 1]
              /\ ph_deg[k] = Deg(0)

C15_Witness ==
    /\ BodeReturned /\ UnityResponse
    /\ bode_num = <<1>> /\ bode_den = <<1>>
    /\ Len(w) = 2
    /\ mag_db[2] = [kind |-> "db", n |-> 0, d |-> 1]
    /\ ph_deg[2] = Deg(0)

(***************************************************************************)
(* H_pend_single far above its resonance.  The quotient num / den is kept  *)
(* as its two terms: |num / den| = |num| / |den|, and the squares of the   *)
(* terms (about 10^12 at w = 1000 w0) are formed in multi-digit            *)
(* arithmetic, a natural being the sequence of its base-10000 digits,      *)
(* least significant first.                                                *)
(***************************************************************************)
RECURSIVE BigOf(_)
BigOf(n) == IF n = 0 THEN <<>> ELSE <<n % 10000>> \o BigOf(n \div 10000)

BigDigit(a, i) == IF i <= Len(a) THEN a[i] ELSE 0

RECURSIVE BigAddFrom(_, _, _, _)
BigAddFrom(a, b, i, carry) ==
    IF i > Len(a) /\ i > Len(b)
    THEN (IF carry = 0 THEN <<>> ELSE <<carry>>)
    ELSE LET t == BigDigit(a, i) + BigDigit(b, i) + carry
         IN <<t % 10000>> \o BigAddFrom(a, b, i + 1, t \div 10000)

BigAdd(a, b) == BigAddFrom(a, b, 1, 0)

RECURSIVE BigScaleFrom(_, _, _, _)
\* a times the digit k
BigScaleFrom(a, k, i, carry) ==
    IF i > Len(a)
    THEN (IF carry = 0 THEN <<>> ELSE <<carry>>)
    ELSE LET t == a[i] * k + carry
         IN <<t % 10000>> \o BigScaleFrom(a, k, i + 1, t \div 10000)

RECURSIVE BigTrim(_)
BigTrim(a) ==
    IF a = <<>> THEN <<>>
    ELSE IF a[Len(a)] = 0 THEN BigTrim(SubSeq(a, 1, Len(a) - 1)) ELSE a

RECURSIVE BigMulFrom(_, _, _)
BigMulFrom(a, b, i) ==
    IF i > Len(b) THEN <<>>
    ELSE BigAdd(BigScaleFrom(a, b[i], 1, 0), <<0>> \o BigMulFrom(a, b, i + 1))

BigMul(a, b) == BigTrim(BigMulFrom(a, b, 1))

RECURSIVE BigLeqFrom(_, _, _)
BigLeqFrom(a, b, i) ==
    IF i = 0 THEN TRUE
    ELSE IF a[i] # b[i] THEN a[i] < b[i]
    ELSE BigLeqFrom(a, b, i - 1)

BigLeq(a, b) ==
    IF Len(a) # Len(b) THEN Len(a) < Len(b) ELSE BigLeqFrom(a, b, Len(a))

BigSq(n) == BigMul(BigOf(Abs(n)), BigOf(Abs(n)))

\* |z|^2 = NormSqNum(z) / NormSqDen(z)
NormSqNum(z) == BigAdd(BigSq(z.re), BigSq(z.im))
NormSqDen(z) == BigSq(z.den)

\* the quotient n / d kept as its terms
Quot(n, d) == [num |-> n, den |-> d]

FarF0 == {R(1, 2), R(1, 1), R(2, 1), R(3, 1), R(5, 1)}
FarQ == {R(1, 1), R(5, 1), R(10, 1), R(50, 1), R(100, 1)}
\* the ratios w / w0 of the evaluated points
FarRatios == {1, 10, 100, 1000}

InitFar ==
    /\ pc = "ready"
    /\ op = "none"
    /\ num1 = <<>> /\ den1 = <<>> /\ num2 = <<>> /\ den2 = <<>>
    /\ num_ol = <<>> /\ den_ol = <<>>
    /\ ret = <<>>
    /\ par \in [f0 : FarF0, Q : FarQ]
    /\ w \in {<<CMul(R(x, 1), par.f0)>> : x \in FarRatios}
    /\ f0_list = <<>> /\ H = <<>> /\ stage = 0
    /\ A = <<>> /\ B = <<>> /\ C = <<>> /\ D = <<>>
    /\ H11 = <<>> /\ H21 = <<>> /\ it = 0 /\ err = "none" /\ n_inv = 0
    /\ ExtInert

\* H_pend_single(w, f0, Q): num = w0**2; den = ...; return num / den
CallPendFar ==
    /\ pc = "ready"
    /\ H' = [k \in 1..Len(w) |-> Quot(PendNum(par.f0), PendDen(w[k], par.f0, par.Q))]
    /\ op' = "H_pend_single"
    /\ pc' = "returned"
    /\ UNCHANGED <<tfVars, w, f0_list, par, stage, ssVars, extVars>>

NextFar == CallPendFar

SpecFar == InitFar /\ [][NextFar]_vars

\* 99^2 (w0/w)^4 <= |q|^2 * 100^2 <= 101^2 (w0/w)^4 for q = H[k], i.e.
\* | |q| - (w0/w)^2 | <= (w0/w)^2 / 100
WithinOnePercent(q, w0, wk) ==
    LET a == BigMul(BigSq(w0.re * wk.den), BigSq(w0.re * wk.den))
        b == BigMul(BigSq(w0.den * wk.re), BigSq(w0.den * wk.re))
        hn == BigMul(NormSqNum(q.num), NormSqDen(q.den))
        hd == BigMul(NormSqDen(q.num), NormSqNum(q.den))
        lhs == BigMul(BigMul(BigOf(10000), b), hn)
    IN /\ BigLeq(BigMul(BigMul(BigOf(9801), a), hd), lhs)
       /\ BigLeq(lhs, BigMul(BigMul(BigOf(10201), a), hd))

(***************************************************************************)
(* C16: H_pend_single with f0 = 0.5 and Q = 50 at w = 1000 w0 has a        *)
(* magnitude within 1% of (w0/w)^2.                                        *)
(***************************************************************************)
C16_FarFieldRollOff ==
    (op = "H_pend_single" /\ pc = "returned" /\ par.f0 = R(1, 2) /\ par.Q = R(50, 1)
        /\ w = <<CMul(R(1000, 1), par.f0)>>) =>
        /\ Len(H) = 1
        /\ WithinOnePercent(H[1], par.f0, w[1])

C16_Witness ==
    /\ op = "H_pend_single" /\ pc = "returned"
    /\ par = [f0 |-> R(1, 2), Q |-> R(50, 1)]
    /\ w = <<R(500, 1)>>
    /\ H[1].num = R(1, 4)
    /\ H[1].den = CNorm(-999999, 20, 4)

(***************************************************************************)
(* A session of calls to the core routines over array objects.  heap[id]   *)
(* is the content of the object id; refs holds the caller's bindings: the  *)
(* grid w, the resonance lists, the transfer functions (pairs of           *)
(* coefficient arrays) and the returned responses.  A routine reads its    *)
(* arguments through their identities, allocates what numpy allocates and  *)
(* writes where the code writes.                                           *)
(***************************************************************************)
MaxCalls == 2      \* most calls in one session

Obj(kind, val) == [kind |-> kind, val |-> val]

\* the object written at identity id: a new one when id is the next free one
Store(hp, id, obj) == IF id = Len(hp) + 1 THEN Append(hp, obj) ELSE [hp EXCEPT ![id] = obj]

\* mutant: the accumulator is the caller's grid itself
AccTargetGrid(hp, wid) == wid

\* H = np.ones_like(w, dtype=complex) is a new array
AccTarget(hp, wid) == Len(hp) + 1

MemGrids == {<<R(1, 1), R(2, 1)>>, <<R(0, 1), R(1, 1)>>}

\* secondary parameters the session uses for every call
MemGas == [M |-> R(2, 1), m |-> R(1, 1), phi |-> R(1, 1), gamma |-> R(1, 1)]
MemQ == R(1, 1)

InitMem ==
    /\ pc = "ready"
    /\ op = "none"
    /\ num1 = <<>> /\ den1 = <<>> /\ num2 = <<>> /\ den2 = <<>>
    /\ num_ol = <<>> /\ den_ol = <<>>
    /\ ret = <<>>
    /\ w = <<>> /\ f0_list = <<>> /\ par = <<>> /\ H = <<>> /\ stage = 0
    /\ A = <<>> /\ B = <<>> /\ C = <<>> /\ D = <<>>
    /\ H11 = <<>> /\ H21 = <<>> /\ it = 0 /\ err = "none" /\ n_inv = 0
    /\ FbInert /\ BodeInert /\ AnimInert
    /\ \E g \in MemGrids :
          heap = << Obj("grid", g),
                    Obj("list", <<R(1, 1)>>), Obj("list", <<R(1, 1), R(2, 1)>>),
                    Obj("poly", <<1>>), Obj("poly", <<1, 0>>),
                    Obj("poly", <<2>>), Obj("poly", <<1, 0, 0>>) >>
    /\ refs = [w |-> 1, lists |-> {2, 3}, tfs |-> << <<4, 5>>, <<6, 7>> >>, out |-> <<>>,
               acc |-> 0, base |-> 0]
    /\ n_calls = 0

MemIdle == pc = "ready" /\ n_calls < MaxCalls

\* one of the four isolator models on the grid
MemIso ==
    /\ MemIdle
    /\ \E name \in IsoOps :
          LET g == heap[refs.w].val
              r == IF name = "H_ip_basic" THEN H_ip_basic(g, R(1, 1), R(1, 1), R(1, 1))
                   ELSE IF name = "H_ip_countermass"
                        THEN H_ip_countermass(g, R(1, 1), R(0, 1), R(1, 1))
                   ELSE IF name = "H_gas_single"
                        THEN H_gas_single(g, R(1, 1), MemGas.M, MemGas.m, MemGas.phi,
                                          MemGas.gamma)
                   ELSE H_pend_single(g, R(1, 1), MemQ)
          IN /\ heap' = Append(heap, Obj("resp", r))
             /\ refs' = [refs EXCEPT !.out = Append(@, Len(heap) + 1)]
             /\ op' = name
    /\ n_calls' = n_calls + 1
    /\ UNCHANGED <<pc, tfVars, cascVars, ssVars, fbVars, bodeVars, animVars>>

\* H_gas_cascade / H_pend_cascade: H = np.ones_like(w, dtype=complex)
MemCascadeEnter ==
    /\ MemIdle
    /\ \E name \in {"H_gas_cascade", "H_pend_cascade"}, lid \in refs.lists :
          LET target == AccTarget(heap, refs.w) IN
          /\ heap' = Store(heap, target, Obj("resp", OnesLike(heap[refs.w].val)))
          /\ refs' = [refs EXCEPT !.acc = target, !.base = Len(heap)]
          /\ f0_list' = heap[lid].val
          /\ op' = name
    /\ stage' = 0
    /\ pc' = "loop"
    /\ UNCHANGED <<tfVars, w, par, H, ssVars, fbVars, bodeVars, animVars, n_calls>>

\* for f0 in f0_list: H *= H_..._single(w, f0=f0, ...)
MemCascadeLoop ==
    /\ pc = "loop" /\ op \in {"H_gas_cascade", "H_pend_cascade"}
    /\ stage < Len(f0_list)
    /\ LET g == heap[refs.w].val
           f0 == f0_list[stage + 1]
           S == IF op = "H_gas_cascade"
                THEN H_gas_single(g, f0, MemGas.M, MemGas.m, MemGas.phi, MemGas.gamma)
                ELSE H_pend_single(g, f0, MemQ)
       IN heap' = [heap EXCEPT ![refs.acc] = Obj("resp", IMul(heap[refs.acc].val, S))]
    /\ stage' = stage + 1
    /\ UNCHANGED <<pc, op, tfVars, w, f0_list, par, H, ssVars, fbVars, bodeVars, animVars,
                   refs, n_calls>>

\* return H
MemCascadeReturn ==
    /\ pc = "loop" /\ op \in {"H_gas_cascade", "H_pend_cascade"}
    /\ stage = Len(f0_list)
    /\ refs' = [refs EXCEPT !.out = Append(@, refs.acc), !.acc = 0, !.base = 0]
    /\ n_calls' = n_calls + 1
    /\ pc' = "ready"
    /\ UNCHANGED <<op, tfVars, cascVars, ssVars, fbVars, bodeVars, animVars, heap>>

\* tf_series on two transfer functions the caller holds
MemTfSeries ==
    /\ MemIdle
    /\ \E i \in 1..Len(refs.tfs), j \in 1..Len(refs.tfs) :
          LET r == tf_series(heap[refs.tfs[i][1]].val, heap[refs.tfs[i][2]].val,
                             heap[refs.tfs[j][1]].val, heap[refs.tfs[j][2]].val)
          IN /\ heap' = heap \o <<Obj("poly", r[1]), Obj("poly", r[2])>>
             /\ refs' = [refs EXCEPT !.tfs = Append(@, <<Len(heap) + 1, Len(heap) + 2>>)]
    /\ op' = "tf_series"
    /\ n_calls' = n_calls + 1
    /\ UNCHANGED <<pc, tfVars, cascVars, ssVars, fbVars, bodeVars, animVars>>

\* tf_feedback: num_cl = num_ol is the argument object itself, den_cl is new
MemTfFeedback ==
    /\ MemIdle
    /\ \E i \in 1..Len(refs.tfs) :
          LET r == tf_feedback(heap[refs.tfs[i][1]].val, heap[refs.tfs[i][2]].val)
          IN /\ heap' = Append(heap, Obj("poly", r[2]))
             /\ refs' = [refs EXCEPT !.tfs = Append(@, <<refs.tfs[i][1], Len(heap) + 1>>)]
    /\ op' = "tf_feedback"
    /\ n_calls' = n_calls + 1
    /\ UNCHANGED <<pc, tfVars, cascVars, ssVars, fbVars, bodeVars, animVars>>

\* bode_mag_phase on a transfer function the caller holds and the grid
MemBode ==
    /\ MemIdle
    /\ \E i \in 1..Len(refs.tfs) :
          LET hs == freqs(heap[refs.tfs[i][1]].val, heap[refs.tfs[i][2]].val,
                          heap[refs.w].val)
          IN /\ \A k \in 1..Len(hs) : ExactAngle(hs[k])
             /\ \E a \in AngleSeqs(hs) :
                   /\ heap' = heap \o <<Obj("real", [k \in 1..Len(hs) |-> MagDb(hs[k])]),
                                         Obj("real", unwrap(a))>>
                   /\ refs' = [refs EXCEPT
                                  !.out = @ \o <<Len(heap) + 1, Len(heap) + 2>>]
    /\ op' = "bode_mag_phase"
    /\ n_calls' = n_calls + 1
    /\ UNCHANGED <<pc, tfVars, cascVars, ssVars, fbVars, bodeVars, animVars>>

NextMem ==
    \/ MemIso
    \/ MemCascadeEnter
    \/ MemCascadeLoop
    \/ MemCascadeReturn
    \/ MemTfSeries
    \/ MemTfFeedback
    \/ MemBode

SpecMem == InitMem /\ [][NextMem]_vars

\* the objects that existed when the running call began: all of them
\* between two calls
Existing == IF pc = "ready" THEN 1..Len(heap) ELSE 1..refs.base

(***************************************************************************)
(* C17: no step of any call changes the content of an object that existed  *)
(* when the call began (the grid, the other arguments, the responses       *)
(* returned earlier), and the caller's grid and lists stay bound to the    *)
(* same objects; the cascade accumulator written in place is an object     *)
(* allocated inside the call.                                              *)
(***************************************************************************)
C17_ArgumentsKept ==
    [][/\ \A id \in Existing : heap'[id] = heap[id]
       /\ refs'.w = refs.w /\ refs'.lists = refs.lists
       /\ \A i \in 1..Len(refs.tfs) : refs'.tfs[i] = refs.tfs[i]
       /\ \A i \in 1..Len(refs.out) : refs'.out[i] = refs.out[i]
       /\ refs'.acc # 0 => refs'.acc \notin Existing]_vars

C17_Witness ==
    /\ n_calls = 2 /\ pc = "ready"
    /\ op = "H_gas_cascade"
    /\ Len(refs.out) = 2
    /\ heap[refs.out[2]].val # heap[refs.out[1]].val
    /\ heap[refs.out[2]].val # OnesLike(heap[refs.w].val)
    /\ Len(refs.tfs) = 2

(***************************************************************************)
(* H_gas_cascade(w, [f0]) and H_gas_single(w, f0=f0), each called with     *)
(* its own default secondary parameters, as in H_gas_1 = H_gas_cascade(w,  *)
(* [0.2]).  Here the grid is in rad/s and f0 in units of 1/(2 pi) Hz, so   *)
(* that w0 is again the number f0 and gamma = 0.05 is the number 1/20.     *)
(* The grid points are 0 and the resonance itself.                         *)
(***************************************************************************)
\* def H_gas_single(w, f0=0.3, M=350.0, m=110.0, phi=1e-3, gamma=0.05)
GasSingleDefaults ==
    [M |-> R(350, 1), m |-> R(110, 1), phi |-> R(1, 1000), gamma |-> R(1, 20)]

\* def H_gas_cascade(w, f0_list, M=350.0, m=11.0, phi=1e-3, gamma=0.05)
GasCascadeDefaults ==
    [M |-> R(350, 1), m |-> R(11, 1), phi |-> R(1, 1000), gamma |-> R(1, 20)]

DefaultF0 == {R(n, 1) : n \in 1..7}

InitDefaults ==
    /\ pc = "ready"
    /\ op = "none"
    /\ num1 = <<>> /\ den1 = <<>> /\ num2 = <<>> /\ den2 = <<>>
    /\ num_ol = <<>> /\ den_ol = <<>>
    /\ ret = <<>>
    /\ \E f0 \in DefaultF0 :
          /\ f0_list = <<f0>>
          /\ w \in {<<>>, <<R(0, 1)>>, <<f0>>, <<R(0, 1), f0>>}
    /\ par = <<>> /\ H = <<>> /\ stage = 0
    /\ A = <<>> /\ B = <<>> /\ C = <<>> /\ D = <<>>
    /\ H11 = <<>> /\ H21 = <<>> /\ it = 0 /\ err = "none" /\ n_inv = 0
    /\ ExtInert

\* H_gas_cascade(w, [f0]): the secondary parameters take their defaults
GasCascadeDefaultEnter ==
    /\ pc = "ready"
    /\ par' = GasCascadeDefaults
    /\ H' = OnesLike(w)
    /\ stage' = 0
    /\ op' = "H_gas_cascade"
    /\ pc' = "loop"
    /\ UNCHANGED <<tfVars, ssVars, w, f0_list, extVars>>

\* H_gas_single(w, f0=f0) after the cascade has returned
GasSingleDefaultCall ==
    /\ pc = "returned" /\ op = "H_gas_cascade"
    /\ LET d == GasSingleDefaults IN
          ret' = H_gas_single(w, f0_list[1], d.M, d.m, d.phi, d.gamma)
    /\ pc' = "compared"
    /\ UNCHANGED <<op, num1, den1, num2, den2, num_ol, den_ol, cascVars, ssVars, extVars>>

NextDefaults ==
    \/ GasCascadeDefaultEnter
    \/ GasCascadeLoop
    \/ GasCascadeReturn
    \/ GasSingleDefaultCall

SpecDefaults == InitDefaults /\ [][NextDefaults]_vars

(***************************************************************************)
(* C18: for every grid w and resonance f0, H_gas_cascade(w, [f0]) with its *)
(* default secondary parameters returns the same sequence as               *)
(* H_gas_single(w, f0=f0) with its default secondary parameters.           *)
(***************************************************************************)
C18_OneStageEqualsSingle ==
    pc = "compared" => H = ret

(***************************************************************************)
(* The stage counter of multi_sas_animation1.py.  FuncAnimation calls      *)
(* animate on the frames 0 .. frames-1 in order, pass after pass; animate  *)
(* may also be called on any frame at any time.                            *)
(***************************************************************************)
MaxPasses == 2     \* passes of the animation that are followed

num_stages == 5
frames == 1000
\* a stage is added on the frames divisible by this period
StagePeriod == 250

\* lengths of the lists animate indexes
Len_amplitudes == 5
Len_frequencies == 5
Len_rod_lengths == 4
Len_time_array == frames
Len_lines == num_stages
Len_masses == num_stages
Len_stage_labels == num_stages

\* mutant: a stage is added whatever the counter is
StagesAfterUnchecked(fr, s) == IF fr % StagePeriod = 0 THEN s + 1 ELSE s

\* if frame % 250 == 0 and stages_to_draw < num_stages: stages_to_draw += 1
StagesAfter(fr, s) == IF fr % StagePeriod = 0 /\ s < num_stages THEN s + 1 ELSE s

\* every index animate uses with s stages to draw is inside its list
IndicesInRange(fr, s) ==
    /\ fr \in 0..(Len_time_array - 1)
    /\ \A i \in 0..(s - 1) : i < Len_amplitudes /\ i < Len_frequencies
    /\ s >= 1
    /\ \A i \in 1..(s - 1) :
          /\ i <= Len_rod_lengths
          /\ i < Len_lines /\ i < Len_masses /\ i < Len_stage_labels
    /\ 0 < Len_masses /\ 0 < Len_stage_labels
    /\ \A i \in s..(num_stages - 1) :
          i < Len_lines /\ i < Len_masses /\ i < Len_stage_labels

\* frames on which animate is called out of sequence
AnyFrames == {0, 1, StagePeriod, frames - 1}

InitAnim ==
    /\ pc = "ready"
    /\ op = "none"
    /\ num1 = <<>> /\ den1 = <<>> /\ num2 = <<>> /\ den2 = <<>>
    /\ num_ol = <<>> /\ den_ol = <<>>
    /\ ret = <<>>
    /\ w = <<>> /\ f0_list = <<>> /\ par = <<>> /\ H = <<>> /\ stage = 0
    /\ A = <<>> /\ B = <<>> /\ C = <<>> /\ D = <<>>
    /\ H11 = <<>> /\ H21 = <<>> /\ it = 0 /\ err = "none" /\ n_inv = 0
    /\ FbInert /\ BodeInert /\ MemInert
    /\ stages_to_draw = 1
    /\ frame = 0 /\ next_frame = 0 /\ n_pass = 0

\* the body of animate(fr)
Animate(fr) ==
    /\ pc \in {"ready", "drawn"}
    /\ frame' = fr
    /\ stages_to_draw' = StagesAfter(fr, stages_to_draw)
    /\ IF IndicesInRange(fr, StagesAfter(fr, stages_to_draw))
       THEN err' = "none" /\ pc' = "drawn"
       ELSE err' = "IndexError" /\ pc' = "raised"
    /\ op' = "animate"

\* FuncAnimation calls animate on the next frame of its sequence
AnimateNext ==
    /\ n_pass < MaxPasses
    /\ Animate(next_frame)
    /\ next_frame' = (next_frame + 1) % frames
    /\ n_pass' = IF next_frame = frames - 1 THEN n_pass + 1 ELSE n_pass
    /\ UNCHANGED <<tfVars, cascVars, A, B, C, D, H11, H21, it, n_inv, fbVars, bodeVars,
                   memVars>>

\* animate called on some frame, out of sequence
AnimateAny ==
    /\ \E fr \in AnyFrames : Animate(fr)
    /\ UNCHANGED <<tfVars, cascVars, A, B, C, D, H11, H21, it, n_inv, fbVars, bodeVars,
                   memVars, next_frame, n_pass>>

NextAnim == AnimateNext \/ AnimateAny

SpecAnim == InitAnim /\ [][NextAnim]_vars

StagesInvariant ==
    /\ 1 <= stages_to_draw /\ stages_to_draw <= num_stages
    /\ pc = "ready" => stages_to_draw = 1
    /\ n_pass >= 1 => stages_to_draw = num_stages
    /\ err = "none" /\ pc # "raised"
    /\ op = "animate" => IndicesInRange(frame, stages_to_draw)

StagesStep ==
    /\ stages_to_draw' \in {stages_to_draw, stages_to_draw + 1}
    /\ stages_to_draw' = stages_to_draw + 1 => frame' % 250 = 0

====
